---- MODULE Spec2Model ----
(***************************************************************************)
(* Model of python_binaural/binaural_gui.py: the WAV visualizer window     *)
(* (WavVisualizer), its waveform preview (WaveformCanvas.draw_waveform)    *)
(* and the click pad (ClickCanvas).  Every GUI handler is one action.      *)
(*                                                                         *)
(* Floating-point samples are modelled as tagged values: <<"f", v>> is the *)
(* finite value v/Unit, <<"nan", 0>> is NaN and <<"inf", s>> is s*Infinity. *)
(* Python's None is the empty sequence and a present value x is <<x>>.     *)
(***************************************************************************)
EXTENDS Integers, Sequences, FiniteSets

VARIABLES
    wav_data,         \* WavVisualizer.wav_data: None or the held array
    sample_rate,      \* WavVisualizer.sample_rate: None or the rate read
    last_click_pos,   \* ClickCanvas.last_click_pos: None or <<x, y>>
    filename_label,   \* the text of filename_label, up to its first ':'
    exc,              \* the exception named in the label, "" if none
    waveform_pixmap,  \* WaveformCanvas.waveform_pixmap: None or the segments drawn
    canvas_width,     \* WaveformCanvas.width()
    canvas_height,    \* WaveformCanvas.height()
    mono_data,        \* locals of the last transform_wav_file, None when the
    itd_samples,      \*   handler that ran last was another one or returned
    left_channel,     \*   at line 147
    right_channel,
    op,               \* the handler that ran last
    loaded,           \* history: <<frames, rate>> of the file read last
    transforms        \* transforms run since the last load, at most MaxTransforms

vars == <<wav_data, sample_rate, last_click_pos, filename_label, exc,
          waveform_pixmap, canvas_width, canvas_height,
          mono_data, itd_samples, left_channel, right_channel,
          op, loaded, transforms>>

-----------------------------------------------------------------------------
(* Bounds of the model *)

MaxLen == 3
MaxDx == 1
MaxTransforms == 2
MaxDrawLen == 5
MaxW == 3

-----------------------------------------------------------------------------
(* Program constants *)

MAX_ITD_SAMPLES == 100
ClickCanvasSize == 450
CanvasWidth == 750
CanvasHeight == 200
Margin == 5

(* Fixed-point scales of the float model: a sample v stands for v/Unit, a  *)
(* gain g for g/GainScale.                                                 *)
Unit == 1000
GainScale == 2000

-----------------------------------------------------------------------------
(* Python / numpy values *)

None == <<>>
Some(x) == <<x>>
IsNone(o) == o = <<>>
Val(o) == o[1]

Fin(v) == <<"f", v>>
NaN == <<"nan", 0>>
PInf == <<"inf", 1>>
NInf == <<"inf", -1>>

IsFin(s) == s[1] = "f"
IsNaN(s) == s[1] = "nan"
IsInf(s) == s[1] = "inf"

Sgn(n) == IF n > 0 THEN 1 ELSE IF n < 0 THEN -1 ELSE 0
AbsInt(n) == IF n < 0 THEN -n ELSE n
Min2(a, b) == IF a < b THEN a ELSE b
Max2(a, b) == IF a > b THEN a ELSE b

(* Division of a by b > 0 rounded toward zero, as float-to-int conversion *)
TruncDiv(a, b) == IF a >= 0 THEN a \div b ELSE -((-a) \div b)

RECURSIVE IsqrtIn(_, _, _)
IsqrtIn(n, lo, hi) ==
    IF lo >= hi THEN lo
    ELSE LET mid == (lo + hi + 1) \div 2
         IN IF mid * mid <= n THEN IsqrtIn(n, mid, hi)
            ELSE IsqrtIn(n, lo, mid - 1)

(* floor(sqrt(n)) for 0 <= n < 2^31 *)
Isqrt(n) == IsqrtIn(n, 0, 46340)

(* float * float, the second factor a finite gain g/GainScale >= 0 *)
MulGain(s, g) ==
    IF IsNaN(s) THEN NaN
    ELSE IF IsInf(s) THEN (IF g = 0 THEN NaN ELSE s)
    ELSE Fin(TruncDiv(s[2] * g, GainScale))

(* (a + b) / 2 in IEEE arithmetic *)
Mean2(a, b) ==
    IF IsNaN(a) \/ IsNaN(b) THEN NaN
    ELSE IF IsInf(a) /\ IsInf(b) THEN (IF a[2] = b[2] THEN a ELSE NaN)
    ELSE IF IsInf(a) THEN a
    ELSE IF IsInf(b) THEN b
    ELSE Fin(TruncDiv(a[2] + b[2], 2))

(* a numpy array: ndim 1 is a sequence of samples, ndim 2 a sequence of    *)
(* rows <<left, right>>                                                    *)
Arr1(d) == [ndim |-> 1, data |-> d]
Arr2(d) == [ndim |-> 2, data |-> d]
Frames(a) == Len(a.data)

(* np.mean(a, axis=1) *)
MeanAxis1(a) == Arr1([i \in 1..Len(a.data) |-> Mean2(a.data[i][1], a.data[i][2])])

(* a[:, 0] *)
Column0(a) == Arr1([i \in 1..Len(a.data) |-> a.data[i][1]])

(* NpPad with the pad widths swapped, (0, k): the zeros go behind *)
NpPad_Append(x, k) == [i \in 1..(k + Len(x)) |-> IF i <= Len(x) THEN x[i] ELSE Fin(0)]

(* np.pad(x, (k, 0), mode='constant'): k zeros in front *)
NpPad(x, k) == [i \in 1..(k + Len(x)) |-> IF i <= k THEN Fin(0) ELSE x[i - k]]

(* Python's x[:n]: n >= 0 keeps the first n items, n < 0 drops the last -n *)
PySliceEnd(x, n) ==
    LET stop == IF n >= 0 THEN Min2(n, Len(x)) ELSE Max2(Len(x) + n, 0)
    IN [i \in 1..stop |-> x[i]]

(* x[::k] for k >= 1: items 0, k, 2k, ... *)
PyStride(x, k) == [j \in 1..((Len(x) + k - 1) \div k) |-> x[(j - 1) * k + 1]]

-----------------------------------------------------------------------------
(* WaveformCanvas.draw_waveform *)

(* np.max(np.abs(x)) of a non-empty 1-d array: NaN if any item is NaN *)
MaxAbs(x) ==
    IF \E i \in 1..Len(x) : IsNaN(x[i]) THEN NaN
    ELSE IF \E i \in 1..Len(x) : IsInf(x[i]) THEN PInf
    ELSE Fin(CHOOSE m \in {AbsInt(x[i][2]) : i \in 1..Len(x)} :
                 \A i \in 1..Len(x) : AbsInt(x[i][2]) <= m)

(* s / m for the maximum m of the absolute values, m > 0 *)
DivByMax(s, m) ==
    IF IsNaN(s) THEN NaN
    ELSE IF IsInf(m) THEN (IF IsInf(s) THEN NaN ELSE Fin(0))
    ELSE Fin(TruncDiv(s[2] * Unit, m[2]))

(* lines 24-26: normalise when the maximum is > 0 (NaN > 0 is False) *)
Normalize(x) ==
    LET m == MaxAbs(x)
    IN IF IsInf(m) \/ (IsFin(m) /\ m[2] > 0)
       THEN [i \in 1..Len(x) |-> DivByMax(x[i], m)]
       ELSE x

(* downsample_factor without the division: every sample is kept *)
downsample_factor_One(n, width) == 1

(* line 29 *)
downsample_factor(n, width) == Max2(1, n \div width)

(* lines 29-30 *)
Downsample(x, width) == PyStride(x, downsample_factor(Len(x), width))

(* int(y1) of lines 55-58 for a sample d: the exception it raises, "" if none *)
IntRaises(d, height) ==
    IF IsNaN(d) THEN "ValueError"
    ELSE IF IsInf(d) THEN (IF height = 2 * Margin THEN "ValueError" ELSE "OverflowError")
    ELSE ""

(* lines 52-58: the segments handed to painter.drawLine before int(); x is *)
(* a numerator over len(downsampled), y a numerator over 2 * Unit          *)
PointX(i, width) == i * width
PointY(d, height) == 2 * Unit * (height \div 2) - d[2] * (height - 2 * Margin)
Lines(ds, width, height) ==
    [i \in 1..(Len(ds) - 1) |->
        <<PointX(i - 1, width), PointY(ds[i], height),
          PointX(i, width), PointY(ds[i + 1], height)>>]

(* the whole of draw_waveform: exc is the exception that leaves it ("" for *)
(* none), pixmap the value stored in self.waveform_pixmap on completion    *)
draw_waveform(audio_data, width, height) ==
    LET a1 == IF audio_data.ndim > 1 THEN MeanAxis1(audio_data).data ELSE audio_data.data
    IN IF Len(a1) = 0 THEN [exc |-> "ValueError", pixmap |-> None]
       ELSE IF width = 0 THEN [exc |-> "ZeroDivisionError", pixmap |-> None]
       ELSE LET ds == Downsample(Normalize(a1), width)
                bad == {i \in 1..Len(ds) : ~IsFin(ds[i])}
            IN IF Len(ds) >= 2 /\ bad # {}
               THEN [exc |-> IntRaises(ds[CHOOSE i \in bad : \A j \in bad : i <= j], height),
                     pixmap |-> None]
               ELSE [exc |-> "",
                     pixmap |-> Some([n |-> Len(ds), lines |-> Lines(ds, width, height)])]

-----------------------------------------------------------------------------
(* Geometry of a click, lines 151-157 and 170-174 *)

(* QPoint(self.click_canvas.width() // 2, self.click_canvas.height() // 2) *)
Center == <<ClickCanvasSize \div 2, ClickCanvasSize \div 2>>

(* ItdOf with round() in place of int(): floor(x + 1/2), computed as      *)
(* (floor(2x) + 1) div 2                                                   *)
ItdOf_Rounded(dx, dy) ==
    IF dx = 0 THEN 0
    ELSE Sgn(dx) * ((Isqrt((4 * MAX_ITD_SAMPLES * MAX_ITD_SAMPLES * dx * dx)
                              \div (dx * dx + dy * dy)) + 1) \div 2)

(* int(np.sin(np.arctan2(dx, -dy)) * 100): sin of the angle is dx / r, and *)
(* int() drops the fraction, so the result is sgn(dx) * floor(100|dx| / r) *)
(* (arctan2(0, 0) is 0).  The product is taken as exact: for the clicks of *)
(* the model it is an integer only where it is 0 or +-100, which floating  *)
(* point gives exactly (sin(pi) * 100 is 1.2e-14, and int() of it is 0).   *)
ItdOf(dx, dy) ==
    IF dx = 0 THEN 0
    ELSE Sgn(dx) * Isqrt((MAX_ITD_SAMPLES * MAX_ITD_SAMPLES * dx * dx) \div (dx * dx + dy * dy))

(* cos(angle_rad / 2) in thousandths, rounded down: the half angle lies in *)
(* (-pi/2, pi/2], so the cosine is sqrt((1 + cos(angle)) / 2) with         *)
(* cos(angle) = -dy / r, here in units of 1/500.  It is 1000 only straight *)
(* up (dx = 0, dy <= 0), as cos() is 1.0 only there.                       *)
HalfCos(dx, dy) ==
    IF dx = 0 /\ dy = 0 THEN 1000
    ELSE LET cosA == Sgn(-dy) * Isqrt((250000 * dy * dy) \div (dx * dx + dy * dy))
         IN Isqrt(1000 * (500 + cosA))

(* lines 173-174, in units of 1 / GainScale *)
left_gain(dx, dy) == HalfCos(dx, dy) + 1000
right_gain(dx, dy) == 1000 - HalfCos(dx, dy)

-----------------------------------------------------------------------------
(* WavVisualizer.transform_wav_file *)

(* PreconditionNotMet without the test of the click *)
PreconditionNotMet_WavOnly(w, c) == IsNone(w)

(* line 145 *)
PreconditionNotMet(w, c) == IsNone(w) \/ IsNone(c)

(* lines 160-163 *)
MonoOf(a) == IF a.ndim = 1 THEN a.data ELSE MeanAxis1(a).data

(* lines 176-184: the two channels after the ITD shift, before the gains.  *)
(* Both branches slice with [:-itd_samples], as the source does.           *)
ShiftRight(m, itd) == IF itd > 0 THEN PySliceEnd(NpPad(m, itd), -itd) ELSE m
ShiftLeft(m, itd) == IF itd > 0 THEN m
                     ELSE IF itd < 0 THEN PySliceEnd(NpPad(m, -itd), -itd)
                     ELSE m

(* lines 187-188 *)
ApplyGain(ch, g) == [i \in 1..Len(ch) |-> MulGain(ch[i], g)]

(* ColumnStack pairing the rows up to the shorter channel, as zip() does, *)
(* instead of raising                                                      *)
ColumnStack_Truncating(l, r) ==
    [exc |-> "", value |-> Arr2([i \in 1..Min2(Len(l), Len(r)) |-> <<l[i], r[i]>>])]

(* np.column_stack((l, r)) of two 1-d arrays: ValueError unless they have  *)
(* the same length                                                         *)
ColumnStack(l, r) ==
    IF Len(l) # Len(r) THEN [exc |-> "ValueError", value |-> Arr2(<<>>)]
    ELSE [exc |-> "", value |-> Arr2([i \in 1..Len(l) |-> <<l[i], r[i]>>])]

NoLocals ==
    /\ mono_data' = None
    /\ itd_samples' = None
    /\ left_channel' = None
    /\ right_channel' = None

(* lines 144-197.  The locals mono_data, itd_samples, left_channel and     *)
(* right_channel are kept as they stand after line 184.                    *)
transform_wav_file ==
    /\ op' = "transform"
    /\ UNCHANGED <<sample_rate, last_click_pos, canvas_width, canvas_height, loaded>>
    /\ IF PreconditionNotMet(wav_data, last_click_pos)
       THEN /\ filename_label' = "Load a file and place green dot first"
            /\ exc' = ""
            /\ NoLocals
            /\ UNCHANGED <<wav_data, waveform_pixmap, transforms>>
       ELSE /\ transforms < MaxTransforms
            /\ transforms' = transforms + 1
            /\ IF IsNone(last_click_pos) \/ IsNone(wav_data)
               THEN (* pos.x() or .shape of None, had line 145 let it through *)
                    /\ filename_label' = "Transform Error"
                    /\ exc' = "AttributeError"
                    /\ NoLocals
                    /\ UNCHANGED <<wav_data, waveform_pixmap>>
               ELSE LET pos == Val(last_click_pos)
                        dx == pos[1] - Center[1]
                        dy == pos[2] - Center[2]
                        m == MonoOf(Val(wav_data))
                        itd == ItdOf(dx, dy)
                        l == ShiftLeft(m, itd)
                        r == ShiftRight(m, itd)
                        st == ColumnStack(ApplyGain(l, left_gain(dx, dy)),
                                          ApplyGain(r, right_gain(dx, dy)))
                        dr == draw_waveform(Column0(st.value), canvas_width, canvas_height)
                    IN /\ mono_data' = Some(m)
                       /\ itd_samples' = Some(itd)
                       /\ left_channel' = Some(l)
                       /\ right_channel' = Some(r)
                       /\ IF st.exc # ""
                          THEN /\ filename_label' = "Transform Error"
                               /\ exc' = st.exc
                               /\ UNCHANGED <<wav_data, waveform_pixmap>>
                          ELSE /\ wav_data' = Some(st.value)
                               /\ IF dr.exc # ""
                                  THEN /\ filename_label' = "Transform Error"
                                       /\ exc' = dr.exc
                                       /\ UNCHANGED waveform_pixmap
                                  ELSE /\ filename_label' = "WAV transformed to stereo with spatial audio"
                                       /\ exc' = ""
                                       /\ waveform_pixmap' = dr.pixmap

-----------------------------------------------------------------------------
(* Inputs *)

(* sample i of a clean file: 1.0, 0.7, 0.4, ... *)
Clean(n) == [i \in 1..n |-> Fin(Unit - 300 * (i - 1))]
WithBad(n, k, b) == [i \in 1..n |-> IF i = k THEN b ELSE Clean(n)[i]]
Neg(s) == IF IsNaN(s) THEN s ELSE <<s[1], -s[2]>>

(* what sf.read can return, as <<data, samplerate>>: a 1-d array for a     *)
(* mono file, frames x 2 for a stereo file; float files may hold NaN and   *)
(* Infinity                                                                *)
MonoFiles ==
    {<<Arr1(Clean(n)), 44100>> : n \in 0..MaxLen}
        \cup {<<Arr1(<<NaN>>), 8000>>, <<Arr1(<<PInf>>), 8000>>,
              <<Arr1(WithBad(2, 2, NaN)), 8000>>}
StereoFiles ==
    {<<Arr2([i \in 1..n |-> <<Clean(n)[i], Neg(Clean(n)[i])>>]), 8000>> : n \in {0, MaxLen}}
        \cup {<<Arr2(<< <<PInf, NInf>> >>), 44100>>}
Files == MonoFiles \cup StereoFiles

(* event.pos() of a mouse press on the 450 x 450 pad: the centre, points   *)
(* 60 pixels above it, the points next to it on its left and right, and    *)
(* the point 60 pixels below it                                            *)
Clicks ==
    {<<Center[1] + dx, IF dx = 0 THEN Center[2] ELSE Center[2] - 60>> : dx \in (-MaxDx)..MaxDx}
        \cup {<<Center[1] - 1, Center[2]>>, <<Center[1] + 1, Center[2]>>,
              <<Center[1], Center[2] + 60>>}

-----------------------------------------------------------------------------
(* The other handlers *)

(* lines 226-247 *)
mousePressEvent(pos) ==
    /\ last_click_pos' = Some(pos)
    /\ op' = "click"
    /\ NoLocals
    /\ UNCHANGED <<wav_data, sample_rate, filename_label, exc, waveform_pixmap,
                   canvas_width, canvas_height, loaded, transforms>>

(* lines 115-132 with a file chosen and read *)
load_wav_file(file, rate) ==
    LET dr == draw_waveform(file, canvas_width, canvas_height)
    IN /\ <<file, rate>> \in Files
       /\ wav_data' = Some(file)
       /\ sample_rate' = Some(rate)
       /\ loaded' = Some(<<Frames(file), rate>>)
       /\ transforms' = 0
       /\ op' = "load"
       /\ NoLocals
       /\ IF dr.exc # ""
          THEN /\ filename_label' = "Error"
               /\ exc' = dr.exc
               /\ UNCHANGED waveform_pixmap
          ELSE /\ filename_label' = "Loaded"
               /\ exc' = ""
               /\ waveform_pixmap' = dr.pixmap
       /\ UNCHANGED <<last_click_pos, canvas_width, canvas_height>>

(* lines 116-120: the dialog is cancelled, file_path is empty *)
load_cancelled ==
    /\ op' = "load"
    /\ NoLocals
    /\ UNCHANGED <<wav_data, sample_rate, last_click_pos, filename_label, exc,
                   waveform_pixmap, canvas_width, canvas_height, loaded, transforms>>

(* lines 121-132: sf.read raises, nothing is assigned *)
load_unreadable ==
    /\ op' = "load"
    /\ filename_label' = "Error"
    /\ exc' = "LibsndfileError"
    /\ NoLocals
    /\ UNCHANGED <<wav_data, sample_rate, last_click_pos, waveform_pixmap,
                   canvas_width, canvas_height, loaded, transforms>>

(* lines 14-17, 72-113, 202-205: the window after construction *)
Init ==
    /\ wav_data = None
    /\ sample_rate = None
    /\ last_click_pos = None
    /\ filename_label = "No file loaded"
    /\ exc = ""
    /\ waveform_pixmap = None
    /\ canvas_width = CanvasWidth
    /\ canvas_height = CanvasHeight
    /\ mono_data = None
    /\ itd_samples = None
    /\ left_channel = None
    /\ right_channel = None
    /\ op = "init"
    /\ loaded = None
    /\ transforms = 0

Next ==
    \/ \E f \in Files : load_wav_file(f[1], f[2])
    \/ load_cancelled
    \/ load_unreadable
    \/ \E pos \in Clicks : mousePressEvent(pos)
    \/ transform_wav_file

Spec == Init /\ [][Next]_vars

-----------------------------------------------------------------------------
(* draw_waveform as a function of its inputs: any buffer on any canvas     *)

SeqsUpTo(S, n) == UNION {[1..k -> S] : k \in 0..n}

DrawSamples == {Fin(0), Fin(Unit), Fin(-500)}
DrawHeights == {0, 2 * Margin, CanvasHeight}
DrawInputs ==
    {Arr1(d) : d \in SeqsUpTo(DrawSamples, MaxDrawLen)}
        \cup {Arr2(d) : d \in SeqsUpTo({<<Fin(Unit), Fin(-Unit)>>, <<Fin(Unit), Fin(0)>>}, 3)}

InitDraw ==
    /\ wav_data \in {Some(a) : a \in DrawInputs}
    /\ canvas_width \in 0..MaxW
    /\ canvas_height \in DrawHeights
    /\ sample_rate = None
    /\ last_click_pos = None
    /\ filename_label = "No file loaded"
    /\ exc = ""
    /\ waveform_pixmap = None
    /\ mono_data = None
    /\ itd_samples = None
    /\ left_channel = None
    /\ right_channel = None
    /\ op = "init"
    /\ loaded = None
    /\ transforms = 0

(* self.canvas.draw_waveform(audio_data), its exception left to the caller *)
draw_call ==
    LET dr == draw_waveform(Val(wav_data), canvas_width, canvas_height)
    IN /\ op' = "draw"
       /\ exc' = dr.exc
       /\ waveform_pixmap' = IF dr.exc = "" THEN dr.pixmap ELSE waveform_pixmap
       /\ UNCHANGED <<wav_data, sample_rate, last_click_pos, filename_label,
                      canvas_width, canvas_height, mono_data, itd_samples,
                      left_channel, right_channel, loaded, transforms>>

NextDraw == draw_call

SpecDraw == InitDraw /\ [][NextDraw]_vars

-----------------------------------------------------------------------------
(* Properties *)

Transformed == "WAV transformed to stereo with spatial audio"
TransformBodyRan == op = "transform" /\ ~IsNone(mono_data)
ClickDx == Val(last_click_pos)[1] - Center[1]
ClickDy == Val(last_click_pos)[2] - Center[2]
AllFinite(a) == \A i \in 1..Len(a.data) : IsFin(a.data[i][1]) /\ IsFin(a.data[i][2])

(* C1: for every mono buffer of length L and every angle both channels     *)
(* built by the transform have exactly L samples; when itd < 0 the left    *)
(* channel is |itd| zeros followed by the first L - |itd| samples and the  *)
(* right channel is the mono buffer unshifted.                             *)
C1_ChannelsKeepLength ==
    TransformBodyRan =>
        LET m == Val(mono_data)
            itd == Val(itd_samples)
            l == Val(left_channel)
            r == Val(right_channel)
        IN /\ Len(l) = Len(m)
           /\ Len(r) = Len(m)
           /\ itd < 0 =>
                /\ r = m
                /\ \A i \in 1..Len(m) : l[i] = IF i <= -itd THEN Fin(0) ELSE m[i + itd]

(* C2: a transform requested while no audio is loaded or no click has been *)
(* recorded sets the label to the precondition message and leaves the      *)
(* buffer, the sample rate and the last click as they were.                *)
C2_PreconditionNotMetLeavesState ==
    [][(op' = "transform" /\ (wav_data = None \/ last_click_pos = None)) =>
          /\ filename_label' = "Load a file and place green dot first"
          /\ filename_label' \notin {"Transform Error", Transformed}
          /\ wav_data' = wav_data
          /\ sample_rate' = sample_rate
          /\ last_click_pos' = last_click_pos]_vars

C2_Witness ==
    /\ op = "transform"
    /\ filename_label = "Load a file and place green dot first"
    /\ ~IsNone(wav_data)
    /\ IsNone(last_click_pos)
    /\ Frames(Val(wav_data)) = 3

(* C3 as stated: itd is sin(angle) * 100 rounded to the nearest integer,   *)
(* lies in [-100, 100], and its sign selects the shifted channel.          *)
C3_ItdIsRounded ==
    TransformBodyRan =>
        LET itd == Val(itd_samples)
            a == AbsInt(itd)
            dx2 == ClickDx * ClickDx
            r2 == ClickDx * ClickDx + ClickDy * ClickDy
        IN /\ a <= MAX_ITD_SAMPLES
           /\ itd # 0 => Sgn(itd) = Sgn(ClickDx)
           /\ r2 = 0 => itd = 0
           /\ r2 > 0 => (2 * a + 1) * (2 * a + 1) * r2 >= 4 * MAX_ITD_SAMPLES * MAX_ITD_SAMPLES * dx2
           /\ a > 0 => (2 * a - 1) * (2 * a - 1) * r2 <= 4 * MAX_ITD_SAMPLES * MAX_ITD_SAMPLES * dx2

(* C3 amended: itd is sin(angle) * 100 with the fraction dropped (rounded  *)
(* toward zero), lies in [-100, 100], and its sign selects the channel the *)
(* shift is applied to: the left channel stays the mono buffer when        *)
(* itd > 0, the right channel stays the mono buffer when itd < 0.          *)
C3_ItdIsTruncated ==
    TransformBodyRan =>
        LET itd == Val(itd_samples)
            a == AbsInt(itd)
            dx2 == ClickDx * ClickDx
            r2 == ClickDx * ClickDx + ClickDy * ClickDy
        IN /\ a <= MAX_ITD_SAMPLES
           /\ itd # 0 => Sgn(itd) = Sgn(ClickDx)
           /\ r2 = 0 => itd = 0
           /\ a * a * r2 <= MAX_ITD_SAMPLES * MAX_ITD_SAMPLES * dx2
           /\ r2 > 0 => (a + 1) * (a + 1) * r2 > MAX_ITD_SAMPLES * MAX_ITD_SAMPLES * dx2
           /\ itd > 0 => Val(left_channel) = Val(mono_data)
           /\ itd < 0 => Val(right_channel) = Val(mono_data)
           /\ itd = 0 => Val(left_channel) = Val(mono_data) /\ Val(right_channel) = Val(mono_data)

(* a click whose product has the fraction .67: int() gives 1, round() 2 *)
C3_Witness ==
    /\ TransformBodyRan
    /\ ClickDx = 1
    /\ ClickDy = -60
    /\ itd_samples = Some(1)

(* C4: spatializing an empty mono buffer gives two empty channels and does *)
(* not end in the error outcome.                                           *)
C4_EmptyBufferNeverErrors ==
    (TransformBodyRan /\ Val(mono_data) = <<>>) =>
        /\ filename_label # "Transform Error"
        /\ wav_data = Some(Arr2(<<>>))

(* C5 as stated: for a buffer of length L on a canvas of width W > 0 the   *)
(* trace has at most min(L, W) points and nondecreasing x.                 *)
C5_AtMostMinLWPoints ==
    (op = "draw" /\ ~IsNone(waveform_pixmap) /\ canvas_width > 0) =>
        LET t == Val(waveform_pixmap)
        IN /\ t.n <= Min2(Frames(Val(wav_data)), canvas_width)
           /\ \A i \in 1..Len(t.lines) : t.lines[i][1] <= t.lines[i][3]
           /\ \A i \in 1..(Len(t.lines) - 1) : t.lines[i][3] <= t.lines[i + 1][1]

(* C5 amended: with stride = max(1, L div W) the trace has ceil(L/stride)  *)
(* points, which is at most min(L, 2W - 1), and nondecreasing x.           *)
C5_PointCountBound ==
    (op = "draw" /\ ~IsNone(waveform_pixmap) /\ canvas_width > 0) =>
        LET t == Val(waveform_pixmap)
            L == Frames(Val(wav_data))
            stride == IF L \div canvas_width > 1 THEN L \div canvas_width ELSE 1
        IN /\ (t.n - 1) * stride < L
           /\ L <= t.n * stride
           /\ t.n <= Min2(L, 2 * canvas_width - 1)
           /\ \A i \in 1..Len(t.lines) : t.lines[i][1] <= t.lines[i][3]
           /\ \A i \in 1..(Len(t.lines) - 1) : t.lines[i][3] <= t.lines[i + 1][1]

(* more points than the canvas is wide *)
C5_Witness ==
    /\ op = "draw"
    /\ ~IsNone(waveform_pixmap)
    /\ canvas_width = 3
    /\ Val(waveform_pixmap).n = 5
    /\ Len(Val(waveform_pixmap).lines) = 4

(* C6: on an empty buffer, an all-zero buffer or a canvas of width or      *)
(* height <= 0 the renderer raises nothing and yields its fallback trace.  *)
C6_DegenerateInputNeverRaises ==
    LET a == Val(wav_data)
        degenerate ==
            \/ Frames(a) = 0
            \/ \A i \in 1..Frames(a) : MonoOf(a)[i] = Fin(0)
            \/ canvas_width <= 0
            \/ canvas_height <= 0
    IN (op = "draw" /\ degenerate) => (exc = "" /\ ~IsNone(waveform_pixmap))

(* C7: a transform whose input holds NaN or Infinity ends in the error     *)
(* outcome, and no successful transform leaves a non-finite value in the   *)
(* held buffer.                                                            *)
C7_NonFiniteInputIsRejected ==
    TransformBodyRan =>
        /\ (\E i \in 1..Len(Val(mono_data)) : ~IsFin(Val(mono_data)[i]))
              => filename_label = "Transform Error"
        /\ filename_label = Transformed => AllFinite(Val(wav_data))

(* C8: when itd > 0 the right channel before the gain is itd zeros         *)
(* followed by m[0 .. L-itd-1] (all zeros when L <= itd), and the left     *)
(* channel is m.                                                           *)
C8_PositiveItdShiftsRight ==
    (TransformBodyRan /\ Val(itd_samples) > 0) =>
        LET m == Val(mono_data)
            itd == Val(itd_samples)
            r == Val(right_channel)
        IN /\ Len(r) = Len(m)
           /\ \A i \in 1..Len(m) : r[i] = IF i <= itd THEN Fin(0) ELSE m[i - itd]
           /\ Val(left_channel) = m

(* a shift shorter than the buffer: samples survive behind the zeros *)
C8_Witness ==
    /\ TransformBodyRan
    /\ itd_samples = Some(1)
    /\ Val(mono_data) = Clean(3)
    /\ Val(right_channel) = <<Fin(0), Clean(3)[1], Clean(3)[2]>>

(* C9: a successful transform replaces the buffer by a 2-channel buffer    *)
(* with the frame count of the buffer before it and keeps the sample rate  *)
(* and the last click; so frame count and sample rate are always those of  *)
(* the file read last.                                                     *)
C9_TransformKeepsFramesAndRate ==
    /\ [][(op' = "transform" /\ filename_label' = Transformed) =>
             /\ Val(wav_data').ndim = 2
             /\ \A i \in 1..Frames(Val(wav_data')) : Len(Val(wav_data').data[i]) = 2
             /\ Frames(Val(wav_data')) = Frames(Val(wav_data))
             /\ sample_rate' = sample_rate
             /\ last_click_pos' = last_click_pos]_vars
    /\ [](~IsNone(wav_data) =>
             loaded = Some(<<Frames(Val(wav_data)), Val(sample_rate)>>))

(* the second transform in a row, applied to the stereo output of the first *)
C9_Witness ==
    /\ op = "transform"
    /\ filename_label = Transformed
    /\ transforms = 2
    /\ Frames(Val(wav_data)) = 3
    /\ Val(wav_data).data[3][1] # Fin(0)

(* C10: a transform request that ends in "Transform Error" leaves the held *)
(* buffer as it was before the request.                                    *)
C10_TransformErrorLeavesBuffer ==
    [][(op' = "transform" /\ filename_label' = "Transform Error") =>
          wav_data' = wav_data]_vars

====
